---------------------------- MODULE Spec2Model ----------------------------
(***************************************************************************)
(* Weather2Go (src/app.py): the weather-data resolution of                 *)
(* get_weather_data(city): city lookup, the chained points / forecast /    *)
(* grid-data requests against api.weather.gov, the best-effort enrichment  *)
(* with its defaults, the wind-chill derivation and the error reports.     *)
(*                                                                         *)
(* Representation.                                                         *)
(*  - A Python str that the code inspects character by character (the      *)
(*    city) is a sequence of one-character strings.                        *)
(*  - A JSON string that the code splits into words (windSpeed) or         *)
(*    compares as a whole (windDirection) is a sequence of tokens, the     *)
(*    result of str.split().                                               *)
(*  - A Python float is an exact rational [num, den] in lowest terms;      *)
(*    JSON numbers are drawn from the integers.                            *)
(*  - A raised exception is the name of its class.                         *)
(***************************************************************************)
EXTENDS Integers, Sequences, FiniteSets, TLC

VARIABLES
    pc,                \* position in get_weather_data
    city,              \* the argument, as typed by the user
    coord,             \* (lat, lon) of line 132, in 1/10000 degree
    sent,              \* the requests issued by requests.get, in order
    points_response,   \* the response to the points request
    forecast_response, \* the response to the forecast request
    grid_response,     \* the response to the grid-data request
    current,           \* temp, wind_speed, wind_direction, time_of_day
    result,            \* <<>> before return and for None, <<dict>> otherwise
    err,               \* the st.error report
    written            \* the st.write output

vars == <<pc, city, coord, sent, points_response, forecast_response,
          grid_response, current, result, err, written>>

(***************************************************************************)
(* Bounds of the model.                                                    *)
(***************************************************************************)
\* the longest run of whitespace typed before or after a city name
MaxPad == 1

(***************************************************************************)
(* Characters and str methods.                                             *)
(***************************************************************************)
UpperChars == <<"A","B","C","D","E","F","G","H","I","J","K","L","M",
                "N","O","P","Q","R","S","T","U","V","W","X","Y","Z">>
LowerChars == <<"a","b","c","d","e","f","g","h","i","j","k","l","m",
                "n","o","p","q","r","s","t","u","v","w","x","y","z">>
\* the characters of the model in code-point order
CodePoints == <<"\t", " ">> \o UpperChars \o LowerChars

Whitespace == {"\t", " "}

IndexIn(c, seq) == CHOOSE i \in 1..Len(seq) : seq[i] = c
IsUpper(c) == \E i \in 1..26 : UpperChars[i] = c
IsLower(c) == \E i \in 1..26 : LowerChars[i] = c
IsLetter(c) == IsUpper(c) \/ IsLower(c)
LowerChar(c) == IF IsUpper(c) THEN LowerChars[IndexIn(c, UpperChars)] ELSE c
UpperChar(c) == IF IsLower(c) THEN UpperChars[IndexIn(c, LowerChars)] ELSE c
Ord(c) == IndexIn(c, CodePoints)

\* str.lower()
Lower(s) == [i \in 1..Len(s) |-> LowerChar(s[i])]
\* str.upper()
Upper(s) == [i \in 1..Len(s) |-> UpperChar(s[i])]

\* str.strip(): drop the leading and the trailing whitespace
RECURSIVE LStrip(_)
LStrip(s) == IF s # <<>> /\ Head(s) \in Whitespace THEN LStrip(Tail(s)) ELSE s
RECURSIVE RStrip(_)
RStrip(s) ==
    IF s # <<>> /\ s[Len(s)] \in Whitespace
    THEN RStrip(SubSeq(s, 1, Len(s) - 1)) ELSE s
Strip(s) == RStrip(LStrip(s))

\* str.title(): a letter that follows a non-letter is upper-cased, any other
\* letter is lower-cased
Title(s) ==
    [i \in 1..Len(s) |->
        IF i = 1 \/ ~IsLetter(s[i - 1]) THEN UpperChar(s[i]) ELSE LowerChar(s[i])]

\* s < t for str: code points, then length
RECURSIVE StrLess(_, _)
StrLess(s, t) ==
    IF t = <<>> THEN FALSE
    ELSE IF s = <<>> THEN TRUE
    ELSE IF Head(s) # Head(t) THEN Ord(Head(s)) < Ord(Head(t))
    ELSE StrLess(Tail(s), Tail(t))

\* sorted(): insertion into an ordered list, one key at a time
RECURSIVE Insert(_, _)
Insert(k, l) ==
    IF l = <<>> THEN <<k>>
    ELSE IF StrLess(k, Head(l)) THEN <<k>> \o l
    ELSE <<Head(l)>> \o Insert(k, Tail(l))
RECURSIVE Sorted(_)
Sorted(l) == IF l = <<>> THEN <<>> ELSE Insert(Head(l), Sorted(Tail(l)))

\* ", ".join(list)
RECURSIVE Join(_)
Join(l) ==
    IF l = <<>> THEN <<>>
    ELSE IF Len(l) = 1 THEN Head(l)
    ELSE Head(l) \o <<",", " ">> \o Join(Tail(l))

(***************************************************************************)
(* The city table of lines 106-122, in insertion order.                    *)
(***************************************************************************)
michigan_cities == <<
    [key |-> <<"d","e","t","r","o","i","t">>, lat |-> 423314, lon |-> -830458],
    [key |-> <<"a","n","n"," ","a","r","b","o","r">>, lat |-> 422808, lon |-> -837430],
    [key |-> <<"g","r","a","n","d"," ","r","a","p","i","d","s">>, lat |-> 429633, lon |-> -856789],
    [key |-> <<"l","a","n","s","i","n","g">>, lat |-> 427335, lon |-> -845555],
    [key |-> <<"f","l","i","n","t">>, lat |-> 430125, lon |-> -836875],
    [key |-> <<"d","e","a","r","b","o","r","n">>, lat |-> 423222, lon |-> -831763],
    [key |-> <<"s","t","e","r","l","i","n","g"," ","h","e","i","g","h","t","s">>, lat |-> 425800, lon |-> -830300],
    [key |-> <<"t","r","o","y">>, lat |-> 425801, lon |-> -831481],
    [key |-> <<"w","a","r","r","e","n">>, lat |-> 424805, lon |-> -830267],
    [key |-> <<"l","i","v","o","n","i","a">>, lat |-> 424172, lon |-> -833711],
    [key |-> <<"k","a","l","a","m","a","z","o","o">>, lat |-> 422917, lon |-> -855872],
    [key |-> <<"s","a","g","i","n","a","w">>, lat |-> 434209, lon |-> -839545],
    [key |-> <<"m","u","s","k","e","g","o","n">>, lat |-> 432343, lon |-> -862474],
    [key |-> <<"j","a","c","k","s","o","n">>, lat |-> 422411, lon |-> -844054],
    [key |-> <<"b","a","t","t","l","e"," ","c","r","e","e","k">>, lat |-> 423202, lon |-> -851832] >>

\* michigan_cities.keys()
Keys == [i \in 1..Len(michigan_cities) |-> michigan_cities[i].key]
\* city_lower in michigan_cities
InCities(k) == \E i \in 1..Len(michigan_cities) : michigan_cities[i].key = k
\* michigan_cities[city_lower]
Lookup(k) ==
    LET e == michigan_cities[CHOOSE i \in 1..Len(michigan_cities) :
                                 michigan_cities[i].key = k]
    IN  <<e.lat, e.lon>>

\* line 124 without .strip()
CityLower_NoStrip(c) == Lower(c)

\* line 124
CityLower(c) == Strip(Lower(c))
\* line 128
Available ==
    LET names == Sorted(Keys)
    IN  Join([i \in 1..Len(names) |-> Title(names[i])])


(***************************************************************************)
(* Numbers: a float is a rational in lowest terms with a positive          *)
(* denominator.                                                            *)
(***************************************************************************)
Abs(n) == IF n < 0 THEN -n ELSE n
RECURSIVE GCD(_, _)
GCD(a, b) == IF b = 0 THEN a ELSE GCD(b, a % b)
R(n, d) ==
    LET g == GCD(Abs(n), Abs(d))
        sgn == IF d < 0 THEN -1 ELSE 1
    IN  [num |-> sgn * (n \div g), den |-> sgn * (d \div g)]

(***************************************************************************)
(* JSON values as json() returns them. A str is the sequence of its        *)
(* whitespace-separated words; a word is a numeral or not.  Absent is the  *)
(* result of looking up a key the object does not have.                    *)
(***************************************************************************)
Numeral(n) == [num |-> TRUE, v |-> n, w |-> ""]
Word(w) == [num |-> FALSE, v |-> 0, w |-> w]

Absent == [t |-> "absent", n |-> 0, toks |-> <<>>]
JNull == [t |-> "null", n |-> 0, toks |-> <<>>]
JNum(n) == [t |-> "num", n |-> n, toks |-> <<>>]
JBool(b) == [t |-> "bool", n |-> IF b THEN 1 ELSE 0, toks |-> <<>>]
JStr(toks) == [t |-> "str", n |-> 0, toks |-> toks]
Str1(w) == JStr(<<Word(w)>>)

\* an exception: its class and, for a KeyError, the key
NoExc == [cls |-> "none", arg |-> ""]
Exc(cls) == [cls |-> cls, arg |-> ""]
KeyError(k) == [cls |-> "KeyError", arg |-> k]

\* float(x) of a word
FloatTok(tok) ==
    IF tok.num THEN [exc |-> NoExc, v |-> tok.v]
    ELSE [exc |-> Exc("ValueError"), v |-> 0]

\* float(x) of a JSON value
Float(j) ==
    CASE j.t \in {"num", "bool"} -> [exc |-> NoExc, v |-> j.n]
      [] j.t = "str" ->
            IF Len(j.toks) = 1 THEN FloatTok(j.toks[1])
            ELSE [exc |-> Exc("ValueError"), v |-> 0]
      [] OTHER -> [exc |-> Exc("TypeError"), v |-> 0]

\* the truth value of a JSON value, and of the None that dict.get gives for
\* a missing key
Truthy(j) ==
    CASE j.t \in {"num", "bool"} -> j.n # 0
      [] j.t = "str" -> j.toks # <<>>
      [] OTHER -> FALSE

(***************************************************************************)
(* URLs: the path segments. A JSON field holding one is absent, a URL, or  *)
(* null.                                                                   *)
(***************************************************************************)
NoUrl == [t |-> "absent", path |-> <<>>]
NullUrl == [t |-> "null", path |-> <<>>]
Url(path) == [t |-> "url", path |-> path]

\* url.replace('/seg/', '/'): a segment with a slash on both sides goes
RECURSIVE ReplaceSeg(_, _)
ReplaceSeg(path, seg) ==
    IF Len(path) <= 1 THEN path
    ELSE IF Head(path) = seg THEN ReplaceSeg(Tail(path), seg)
    ELSE <<Head(path)>> \o ReplaceSeg(Tail(path), seg)

\* line 176
GridUrl(gridpoints) == ReplaceSeg(ReplaceSeg(gridpoints, "wfo"), "grid")

\* requests
PointsRequest(lat, lon) == [kind |-> "points", lat |-> lat, lon |-> lon, path |-> <<>>]
ForecastRequest(path) == [kind |-> "forecast", lat |-> 0, lon |-> 0, path |-> path]
GridRequest(path) == [kind |-> "grid", lat |-> 0, lon |-> 0, path |-> path]

(***************************************************************************)
(* The error reports of st.error.                                          *)
(***************************************************************************)
NoError == [kind |-> "none", status |-> 0, detail |-> ""]
CityNotFound == [kind |-> "city_not_found", status |-> 0, detail |-> ""]
LocationError(status) == [kind |-> "location", status |-> status, detail |-> ""]
ForecastError(status) == [kind |-> "forecast", status |-> status, detail |-> ""]

\* lines 222-233 without the Timeout handler
Report_NoTimeoutHandler(exc) ==
    CASE exc.cls = "ConnectionError" ->
            [kind |-> "connection", status |-> 0, detail |-> ""]
      [] exc.cls = "KeyError" ->
            [kind |-> "missing_field", status |-> 0, detail |-> exc.arg]
      [] OTHER ->
            [kind |-> "generic", status |-> 0, detail |-> exc.cls]

\* lines 222-233 with the Exception handler ahead of the KeyError handler
Report_ExceptionBeforeKeyError(exc) ==
    CASE exc.cls = "Timeout" ->
            [kind |-> "timeout", status |-> 0, detail |-> ""]
      [] exc.cls = "ConnectionError" ->
            [kind |-> "connection", status |-> 0, detail |-> ""]
      [] OTHER ->
            [kind |-> "generic", status |-> 0, detail |-> exc.cls]

\* the handlers of lines 222-233, in their order
Report(exc) ==
    CASE exc.cls = "Timeout" ->
            [kind |-> "timeout", status |-> 0, detail |-> ""]
      [] exc.cls = "ConnectionError" ->
            [kind |-> "connection", status |-> 0, detail |-> ""]
      [] exc.cls = "KeyError" ->
            [kind |-> "missing_field", status |-> 0, detail |-> exc.arg]
      [] OTHER ->
            [kind |-> "generic", status |-> 0, detail |-> exc.cls]

(***************************************************************************)
(* What requests.get and response.json() can give: an exception raised by  *)
(* requests.get, or a response with a status code whose body is JSON or    *)
(* not.                                                                    *)
(***************************************************************************)
Unsent(body) == [exc |-> "unsent", status_code |-> 0, json_ok |-> FALSE, body |-> body]
Raised(cls, body) == [exc |-> cls, status_code |-> 0, json_ok |-> FALSE, body |-> body]
Status(code, body) == [exc |-> "none", status_code |-> code, json_ok |-> FALSE, body |-> body]
BadJson(body) == [exc |-> "none", status_code |-> 200, json_ok |-> FALSE, body |-> body]
Ok(body) == [exc |-> "none", status_code |-> 200, json_ok |-> TRUE, body |-> body]

\* the exceptions of requests.get: the two the code names, and any other
RequestExceptions == {"Timeout", "ConnectionError", "RequestException"}
\* status codes other than 200
FailureStatuses == {404, 500}

\* the points response: properties.forecast and properties.gridpoints
EmptyPoints == [has_properties |-> FALSE, forecast |-> NoUrl, gridpoints |-> NoUrl]
ForecastPath == <<"gridpoints", "DTX", "65,33", "forecast">>
GridpointsPath == <<"gridpoints", "wfo", "DTX", "grid", "65,33">>
PointsBodies ==
    {EmptyPoints} \cup
    { [has_properties |-> TRUE, forecast |-> f, gridpoints |-> g] :
        f \in {NoUrl, NullUrl, Url(ForecastPath)},
        g \in {NoUrl, NullUrl, Url(GridpointsPath)} }
PointsResponses ==
    { Raised(c, EmptyPoints) : c \in RequestExceptions } \cup
    { Status(code, EmptyPoints) : code \in FailureStatuses } \cup
    { BadJson(EmptyPoints) } \cup
    { Ok(b) : b \in PointsBodies }

\* the forecast response: properties.periods[0]
Compass == {"N", "NE", "E", "SE", "S", "SW", "W", "NW"}
Mph(n) == JStr(<<Numeral(n), Word("mph")>>)
Temperatures == {Absent, JNull, JNum(30), JNum(50), JNum(51)}
WindSpeeds == {Absent, JNum(5), JStr(<<>>), Str1("Calm"), Mph(3), Mph(4), Mph(10)}
WindDirections == {Absent, Str1("Calm"), Str1("NNW")} \cup { Str1(d) : d \in Compass }
Daytimes == {Absent, JBool(TRUE), JBool(FALSE)}
EmptyPeriod ==
    [temperature |-> Absent, windSpeed |-> Absent,
     windDirection |-> Absent, isDaytime |-> Absent]
Periods ==
    [temperature : Temperatures, windSpeed : WindSpeeds,
     windDirection : WindDirections, isDaytime : Daytimes]
EmptyForecast == [has_properties |-> FALSE, periods |-> "absent", period |-> EmptyPeriod]
ForecastBodies ==
    { EmptyForecast,
      [has_properties |-> TRUE, periods |-> "absent", period |-> EmptyPeriod],
      [has_properties |-> TRUE, periods |-> "empty", period |-> EmptyPeriod] } \cup
    { [has_properties |-> TRUE, periods |-> "some", period |-> p] : p \in Periods }
ForecastResponses ==
    { Raised(c, EmptyForecast) : c \in RequestExceptions } \cup
    { Status(code, EmptyForecast) : code \in FailureStatuses } \cup
    { BadJson(EmptyForecast) } \cup
    { Ok(b) : b \in ForecastBodies }

\* the grid-data response: for each property, whether it is there, whether
\* it is an object, whether its values array has a first element, and that
\* element's value
Prop(shape, value) == [shape |-> shape, value |-> value]
Props(nonzero) ==
    { Prop(sh, Absent) : sh \in {"absent", "notobj", "novalues"} } \cup
    { Prop("elem", v) : v \in {Absent, JNull, JNum(0), JNum(nonzero), Str1("abc")} }
EmptyGrid ==
    [has_properties |-> FALSE, relativeHumidity |-> Prop("absent", Absent),
     visibility |-> Prop("absent", Absent),
     quantitativePrecipitation |-> Prop("absent", Absent)]
GridBodies ==
    {EmptyGrid} \cup
    { [has_properties |-> TRUE, relativeHumidity |-> h, visibility |-> v,
       quantitativePrecipitation |-> q] :
        h \in Props(80), v \in Props(16093), q \in Props(5) }
GridResponses ==
    { Raised(c, EmptyGrid) : c \in RequestExceptions } \cup
    { Status(code, EmptyGrid) : code \in FailureStatuses } \cup
    { BadJson(EmptyGrid) } \cup
    { Ok(b) : b \in GridBodies }

(***************************************************************************)
(* Step 1 (lines 136-144): the error the points response ends the fetch    *)
(* with, or NoError.                                                       *)
(***************************************************************************)
\* lines 139-144 with the body read before the status is looked at
PointsOutcome_JsonBeforeStatus(resp) ==
    IF resp.exc # "none" THEN Report(Exc(resp.exc))
    ELSE IF ~resp.json_ok THEN Report(Exc("ValueError"))
    ELSE IF resp.status_code # 200 THEN LocationError(resp.status_code)
    ELSE IF ~resp.body.has_properties THEN Report(KeyError("properties"))
    ELSE IF resp.body.forecast.t = "absent" THEN Report(KeyError("forecast"))
    ELSE NoError

PointsOutcome(resp) ==
    IF resp.exc # "none" THEN Report(Exc(resp.exc))
    ELSE IF resp.status_code # 200 THEN LocationError(resp.status_code)
    ELSE IF ~resp.json_ok THEN Report(Exc("ValueError"))
    ELSE IF ~resp.body.has_properties THEN Report(KeyError("properties"))
    ELSE IF resp.body.forecast.t = "absent" THEN Report(KeyError("forecast"))
    ELSE NoError

(***************************************************************************)
(* Step 2 (lines 147-167).                                                 *)
(***************************************************************************)
NoCurrent == [temp |-> 0, wind_speed |-> 0, wind_direction |-> Absent, time_of_day |-> ""]
Raise(exc) == [exc |-> exc, cur |-> NoCurrent]

\* line 160: float(current['windSpeed'].split()[0])
WindSpeed(j) ==
    IF j.t # "str" THEN [exc |-> Exc("AttributeError"), v |-> 0]
    ELSE IF j.toks = <<>> THEN [exc |-> Exc("IndexError"), v |-> 0]
    ELSE FloatTok(j.toks[1])

\* line 164
WindDirection(wind_dir_str) ==
    IF wind_dir_str # Str1("Calm") THEN wind_dir_str ELSE Str1("N")

\* line 167
TimeOfDay(is_daytime) == IF Truthy(is_daytime) THEN "Day" ELSE "Night"

\* lines 159-167 with current.get('isDaytime') at line 167
ParsePeriod_OptionalDaytime(p) ==
    IF p.temperature.t = "absent" THEN Raise(KeyError("temperature"))
    ELSE LET temp == Float(p.temperature) IN
    IF temp.exc # NoExc THEN Raise(temp.exc)
    ELSE IF p.windSpeed.t = "absent" THEN Raise(KeyError("windSpeed"))
    ELSE LET wind_speed == WindSpeed(p.windSpeed) IN
    IF wind_speed.exc # NoExc THEN Raise(wind_speed.exc)
    ELSE IF p.windDirection.t = "absent" THEN Raise(KeyError("windDirection"))
    ELSE [exc |-> NoExc,
          cur |-> [temp |-> temp.v, wind_speed |-> wind_speed.v,
                   wind_direction |-> WindDirection(p.windDirection),
                   time_of_day |-> TimeOfDay(p.isDaytime)]]

\* lines 159-167, statement by statement
ParsePeriod(p) ==
    IF p.temperature.t = "absent" THEN Raise(KeyError("temperature"))
    ELSE LET temp == Float(p.temperature) IN
    IF temp.exc # NoExc THEN Raise(temp.exc)
    ELSE IF p.windSpeed.t = "absent" THEN Raise(KeyError("windSpeed"))
    ELSE LET wind_speed == WindSpeed(p.windSpeed) IN
    IF wind_speed.exc # NoExc THEN Raise(wind_speed.exc)
    ELSE IF p.windDirection.t = "absent" THEN Raise(KeyError("windDirection"))
    ELSE IF p.isDaytime.t = "absent" THEN Raise(KeyError("isDaytime"))
    ELSE [exc |-> NoExc,
          cur |-> [temp |-> temp.v, wind_speed |-> wind_speed.v,
                   wind_direction |-> WindDirection(p.windDirection),
                   time_of_day |-> TimeOfDay(p.isDaytime)]]

\* lines 149-156: the error report of a status other than 200, or what
\* reading the body raises, or the parsed period
ForecastOutcome(resp) ==
    IF resp.exc # "none" THEN [err |-> Report(Exc(resp.exc)), cur |-> NoCurrent]
    ELSE IF resp.status_code # 200
    THEN [err |-> ForecastError(resp.status_code), cur |-> NoCurrent]
    ELSE LET parsed ==
                 IF ~resp.json_ok THEN Raise(Exc("ValueError"))
                 ELSE IF ~resp.body.has_properties THEN Raise(KeyError("properties"))
                 ELSE IF resp.body.periods = "absent" THEN Raise(KeyError("periods"))
                 ELSE IF resp.body.periods = "empty" THEN Raise(Exc("IndexError"))
                 ELSE ParsePeriod(resp.body.period)
         IN  [err |-> IF parsed.exc = NoExc THEN NoError ELSE Report(parsed.exc),
              cur |-> parsed.cur]

(***************************************************************************)
(* Step 3 (lines 170-198): the body of the inner try, and its handler.     *)
(***************************************************************************)
\* lines 170-172
Defaults == [humidity |-> R(50, 1), visibility |-> R(10, 1), precipitation |-> R(0, 1)]

\* one property: the guard props.get(name, {}).get('values') and the
\* conditional float(...['value']) if ...get('value') else dflt
Extract(p, dflt) ==
    CASE p.shape = "notobj" -> [exc |-> Exc("AttributeError"), skip |-> FALSE, v |-> 0]
      [] p.shape \in {"absent", "novalues"} -> [exc |-> NoExc, skip |-> TRUE, v |-> 0]
      [] OTHER ->
            IF Truthy(p.value)
            THEN LET f == Float(p.value) IN [exc |-> f.exc, skip |-> FALSE, v |-> f.v]
            ELSE [exc |-> NoExc, skip |-> FALSE, v |-> dflt]

\* lines 184-195: the three extractions in the order of the code; an
\* exception leaves the variables as they are at that point
ReadGrid(props) ==
    LET h == Extract(props.relativeHumidity, 50) IN
    IF h.exc # NoExc THEN [exc |-> h.exc, vals |-> Defaults]
    ELSE
    LET d1 == IF h.skip THEN Defaults ELSE [Defaults EXCEPT !.humidity = R(h.v, 1)]
        v == Extract(props.visibility, 10000)
    IN
    IF v.exc # NoExc THEN [exc |-> v.exc, vals |-> d1]
    ELSE
    LET d2 == IF v.skip THEN d1 ELSE [d1 EXCEPT !.visibility = R(v.v * 100, 160934)]
        q == Extract(props.quantitativePrecipitation, 0)
    IN
    IF q.exc # NoExc THEN [exc |-> q.exc, vals |-> d2]
    ELSE IF q.skip THEN [exc |-> NoExc, vals |-> d2]
    ELSE [exc |-> NoExc,
          vals |-> [d2 EXCEPT !.precipitation =
                        IF q.v # 0 THEN R(q.v * 10, 254) ELSE R(0, 1)]]

\* lines 177-195: what the grid-data response leaves in the variables
ReadGridResponse(resp) ==
    IF resp.exc # "none" THEN [exc |-> Exc(resp.exc), vals |-> Defaults]
    ELSE IF resp.status_code # 200 THEN [exc |-> NoExc, vals |-> Defaults]
    ELSE IF ~resp.json_ok THEN [exc |-> Exc("ValueError"), vals |-> Defaults]
    ELSE IF ~resp.body.has_properties
    THEN [exc |-> KeyError("properties"), vals |-> Defaults]
    ELSE ReadGrid(resp.body)

\* lines 196-198 as except KeyError: pass
GridHandler_KeyErrorOnly(exc) == IF exc.cls = "KeyError" THEN NoExc ELSE exc

\* lines 196-198: except Exception: pass. The exception that leaves the
\* inner try.
GridHandler(exc) == NoExc

(***************************************************************************)
(* Lines 200-220: wind chill and the returned dict.                        *)
(***************************************************************************)
\* 1000 * V ** 0.16, rounded, for V = 1..20
Pow016 == <<1000, 1117, 1192, 1248, 1294, 1332, 1365, 1395, 1421, 1445,
            1468, 1488, 1507, 1525, 1542, 1558, 1574, 1588, 1602, 1615>>

\* lines 201-204 with temp < 50
WindChill_StrictTemp(temp, wind_speed) ==
    IF temp < 50 /\ wind_speed > 3
    THEN R(357400000 + 6215000 * temp - 357500 * Pow016[wind_speed]
             + 4275 * temp * Pow016[wind_speed], 10000000)
    ELSE R(temp, 1)

\* lines 201-204, in units of 10^-7 degree
WindChill(temp, wind_speed) ==
    IF temp <= 50 /\ wind_speed > 3
    THEN R(357400000 + 6215000 * temp - 357500 * Pow016[wind_speed]
             + 4275 * temp * Pow016[wind_speed], 10000000)
    ELSE R(temp, 1)

\* lines 207-220
Observation(c, cur, vals) ==
    [City |-> c,
     Temperature_F |-> R(cur.temp, 1),
     Wind_Chill_F |-> WindChill(cur.temp, cur.wind_speed),
     Humidity_pct |-> vals.humidity,
     Pressure_in |-> R(299, 10),
     Visibility_mi |-> vals.visibility,
     Wind_Direction |-> cur.wind_direction,
     Wind_Speed_mph |-> R(cur.wind_speed, 1),
     Precipitation_in |-> vals.precipitation,
     Sunrise_Sunset |-> cur.time_of_day]

(***************************************************************************)
(* The calls of get_weather_data. The caller (lines 273-278) passes only   *)
(* a city that is not blank.                                               *)
(***************************************************************************)
Pad(n) == [i \in 1..n |-> " "]
Detroit == michigan_cities[1].key
Troy == michigan_cities[8].key

\* the cities of the fetches that are followed to their end
MainCities ==
    { Title(Detroit), Pad(2) \o Upper(Troy) \o Pad(2),
      <<"C","h","i","c","a","g","o">>, SubSeq(Detroit, 1, 3) }

\* the cities of the fetches that stop after step 1: every key in three
\* spellings with up to MaxPad blanks on either side, and near misses
Spellings(k) == {k, Upper(k), Title(k)}
NearMisses(k) ==
    { SubSeq(k, 1, n) : n \in 1..(Len(k) - 1) } \cup
    { k \o <<"x">>, <<"x">> \o k, SelectSeq(k, LAMBDA c : c # " ") \o <<"s">> }
ResolveCities ==
    { c \in UNION { { Pad(l) \o sp \o Pad(r) :
                        sp \in Spellings(Keys[i]) \cup NearMisses(Keys[i]),
                        l \in 0..MaxPad, r \in 0..MaxPad } :
                    i \in 1..Len(Keys) } :
        Strip(c) # <<>> }

\* the entry of get_weather_data(c)
Call(cities) ==
    /\ pc = "start"
    /\ city \in cities
    /\ coord = <<0, 0>>
    /\ sent = <<>>
    /\ points_response = Unsent(EmptyPoints)
    /\ forecast_response = Unsent(EmptyForecast)
    /\ grid_response = Unsent(EmptyGrid)
    /\ current = NoCurrent
    /\ result = <<>>
    /\ err = NoError
    /\ written = <<>>

Init == Call(MainCities)
InitResolve == Call(ResolveCities)

\* lines 124-132
Start ==
    /\ pc = "start"
    /\ LET city_lower == CityLower(city) IN
       IF ~InCities(city_lower)
       THEN /\ err' = CityNotFound
            /\ written' = Available
            /\ result' = <<>>
            /\ pc' = "done"
            /\ UNCHANGED coord
       ELSE /\ coord' = Lookup(city_lower)
            /\ pc' = "points"
            /\ UNCHANGED <<err, written, result>>
    /\ UNCHANGED <<city, sent, points_response, forecast_response,
                   grid_response, current>>

\* lines 136-144
PointsStep ==
    /\ pc = "points"
    /\ \E resp \in PointsResponses :
        /\ sent' = Append(sent, PointsRequest(coord[1], coord[2]))
        /\ points_response' = resp
        /\ LET e == PointsOutcome(resp) IN
           IF e = NoError
           THEN /\ pc' = "forecast"
                /\ UNCHANGED <<err, result>>
           ELSE /\ err' = e
                /\ result' = <<>>
                /\ pc' = "done"
    /\ UNCHANGED <<city, coord, forecast_response, grid_response, current, written>>

\* lines 147-167
ForecastStep ==
    /\ pc = "forecast"
    /\ LET forecast_url == points_response.body.forecast IN
       IF forecast_url.t # "url"
       THEN \* requests.get(None) raises MissingSchema before anything is sent
            /\ err' = Report(Exc("MissingSchema"))
            /\ result' = <<>>
            /\ pc' = "done"
            /\ UNCHANGED <<sent, forecast_response, current>>
       ELSE \E resp \in ForecastResponses :
            /\ sent' = Append(sent, ForecastRequest(forecast_url.path))
            /\ forecast_response' = resp
            /\ LET o == ForecastOutcome(resp) IN
               IF o.err = NoError
               THEN /\ current' = o.cur
                    /\ pc' = "grid"
                    /\ UNCHANGED <<err, result>>
               ELSE /\ err' = o.err
                    /\ result' = <<>>
                    /\ pc' = "done"
                    /\ UNCHANGED current
    /\ UNCHANGED <<city, coord, points_response, grid_response, written>>

\* lines 170-220 and, for an exception that leaves the inner try, 222-233
Finish(raised, vals) ==
    LET exc == IF raised = NoExc THEN NoExc ELSE GridHandler(raised) IN
    IF exc = NoExc
    THEN /\ result' = <<Observation(city, current, vals)>>
         /\ UNCHANGED err
    ELSE /\ result' = <<>>
         /\ err' = Report(exc)

GridStep ==
    /\ pc = "grid"
    /\ LET gridpoints == points_response.body.gridpoints IN
       CASE gridpoints.t = "absent" ->
                /\ Finish(NoExc, Defaults)
                /\ UNCHANGED <<sent, grid_response>>
         [] gridpoints.t = "null" ->
                \* None.replace raises AttributeError
                /\ Finish(Exc("AttributeError"), Defaults)
                /\ UNCHANGED <<sent, grid_response>>
         [] OTHER ->
                \E resp \in GridResponses :
                    /\ sent' = Append(sent, GridRequest(GridUrl(gridpoints.path)))
                    /\ grid_response' = resp
                    /\ LET r == ReadGridResponse(resp) IN Finish(r.exc, r.vals)
    /\ pc' = "done"
    /\ UNCHANGED <<city, coord, points_response, forecast_response, current, written>>

Next == Start \/ PointsStep \/ ForecastStep \/ GridStep

Spec == Init /\ [][Next]_vars

\* city resolution and step 1, for every spelling of every city
NextResolve == Start \/ PointsStep
SpecResolve == InitResolve /\ [][NextResolve]_vars

(***************************************************************************)
(* Properties.                                                             *)
(***************************************************************************)
Done == pc = "done"
Returned == Done /\ result # <<>>

\* a response with status 200 and a JSON body that has 'properties'
Read200(resp) ==
    resp.exc = "none" /\ resp.status_code = 200 /\ resp.json_ok /\ resp.body.has_properties

\* the points request returned 200 with a forecast URL
PointsGaveForecastUrl == Read200(points_response) /\ points_response.body.forecast.t = "url"

\* the forecast request returned 200 with a first period
ForecastGavePeriod == Read200(forecast_response) /\ forecast_response.body.periods = "some"

\* a required field that converts: a number, or a numeral in a string, for
\* the temperature; a string that starts with a numeral ("<number> mph")
\* for the wind speed; any value for the other two
TemperatureParseable(p) ==
    \/ p.temperature.t \in {"num", "bool"}
    \/ /\ p.temperature.t = "str"
       /\ Len(p.temperature.toks) = 1
       /\ p.temperature.toks[1].num
WindSpeedParseable(p) ==
    /\ p.windSpeed.t = "str"
    /\ Len(p.windSpeed.toks) >= 1
    /\ p.windSpeed.toks[1].num
FourFieldsParseable(p) ==
    /\ TemperatureParseable(p)
    /\ WindSpeedParseable(p)
    /\ p.windDirection.t # "absent"
    /\ p.isDaytime.t # "absent"

AllDefaults(obs) ==
    /\ obs.Humidity_pct = R(50, 1)
    /\ obs.Visibility_mi = R(10, 1)
    /\ obs.Precipitation_in = R(0, 1)

\* C1: when the points request returned 200 with a forecast URL and the
\* forecast request returned 200 with the four required fields parseable,
\* the fetch returns an observation and reports no error, whatever the
\* grid-data request did.
C1_EnrichNeverAborts ==
    (Done /\ PointsGaveForecastUrl /\ ForecastGavePeriod
          /\ FourFieldsParseable(forecast_response.body.period))
        => (result # <<>> /\ err = NoError)

\* the grid-data request timed out and the fetch returned an observation
C1_Witness ==
    /\ Returned
    /\ grid_response.exc = "Timeout"
    /\ FourFieldsParseable(forecast_response.body.period)

\* a property of the grid-data body whose reading raises
PropFaulty(p) ==
    \/ p.shape = "notobj"
    \/ p.shape = "elem" /\ p.value.t = "str" /\ p.value.toks # <<>>
                /\ ~(Len(p.value.toks) = 1 /\ p.value.toks[1].num)

\* the grid-data step failed: no usable URL, an exception of the request,
\* a status other than 200, a body that is not JSON or has no
\* 'properties', or a property whose reading raises
GridFailed ==
    \/ points_response.body.gridpoints.t = "null"
    \/ grid_response.exc \in RequestExceptions
    \/ grid_response.exc = "none" /\ grid_response.status_code # 200
    \/ grid_response.exc = "none" /\ grid_response.status_code = 200
         /\ ( \/ ~grid_response.json_ok
              \/ ~grid_response.body.has_properties
              \/ PropFaulty(grid_response.body.relativeHumidity)
              \/ PropFaulty(grid_response.body.visibility)
              \/ PropFaulty(grid_response.body.quantitativePrecipitation) )

\* C2: whenever the grid-data step fails for any reason, the returned
\* observation carries the three defaults together: humidity 50,
\* visibility 10.0 mi, precipitation 0.0 in.
C2_FailedGridGivesAllDefaults ==
    (Returned /\ GridFailed) => AllDefaults(result[1])

\* a property of the grid-data body read without an exception
PropHasValue(p) == p.shape = "elem" /\ p.value.t = "num"
PropHasNoValue(p) ==
    \/ p.shape \in {"absent", "novalues"}
    \/ p.shape = "elem" /\ p.value.t \in {"absent", "null"}
GridReadCleanly ==
    /\ Read200(grid_response)
    /\ \A p \in { grid_response.body.relativeHumidity,
                  grid_response.body.visibility,
                  grid_response.body.quantitativePrecipitation } :
          PropHasValue(p) \/ PropHasNoValue(p)

\* C3: when the grid-data request returns 200, for each of the three
\* properties on its own: a first value that is present and not null, 0
\* included, is the observation's field after conversion (humidity raw,
\* visibility metres / 1609.34, precipitation mm / 25.4); an absent or null
\* value leaves the field at its default 50, 10.0 mi, 0.0 in.
C3_EachFieldValueOrDefault ==
    (Returned /\ GridReadCleanly) =>
        LET b == grid_response.body
            obs == result[1]
        IN  /\ PropHasValue(b.relativeHumidity)
                => obs.Humidity_pct = R(b.relativeHumidity.value.n, 1)
            /\ PropHasNoValue(b.relativeHumidity)
                => obs.Humidity_pct = R(50, 1)
            /\ PropHasValue(b.visibility)
                => obs.Visibility_mi = R(b.visibility.value.n * 100, 160934)
            /\ PropHasNoValue(b.visibility)
                => obs.Visibility_mi = R(10, 1)
            /\ PropHasValue(b.quantitativePrecipitation)
                => obs.Precipitation_in = R(b.quantitativePrecipitation.value.n * 10, 254)
            /\ PropHasNoValue(b.quantitativePrecipitation)
                => obs.Precipitation_in = R(0, 1)

\* C4 as stated: a timeout of any of the three requests makes the fetch
\* fail with the timeout report and no observation.
C4_AnyTimeoutFailsFetch ==
    (Done /\ ( \/ points_response.exc = "Timeout"
               \/ forecast_response.exc = "Timeout"
               \/ grid_response.exc = "Timeout" ))
        => (err.kind = "timeout" /\ result = <<>>)

\* C4 as amended: a timeout of the points or of the forecast request makes
\* the fetch fail with the timeout report and no observation; a timeout of
\* the grid-data request does not: the fetch returns an observation with
\* the three defaults and reports no error.
C4_RequiredTimeoutFailsFetch ==
    Done =>
        /\ (points_response.exc = "Timeout" \/ forecast_response.exc = "Timeout")
              => (err.kind = "timeout" /\ result = <<>>)
        /\ grid_response.exc = "Timeout"
              => (result # <<>> /\ err = NoError /\ AllDefaults(result[1]))

\* the forecast request timed out and the fetch has ended
C4_Witness ==
    /\ Done
    /\ Len(sent) = 2
    /\ forecast_response.exc = "Timeout"
    /\ err.kind = "timeout"

\* the required keys in the order the code reads them
RequiredKeys == <<"temperature", "windSpeed", "windDirection", "isDaytime">>
FieldOf(p, i) ==
    CASE i = 1 -> p.temperature
      [] i = 2 -> p.windSpeed
      [] i = 3 -> p.windDirection
      [] OTHER -> p.isDaytime
LacksKey(p) == \E i \in 1..4 : FieldOf(p, i).t = "absent"
FirstMissing(p) == CHOOSE i \in 1..4 :
    /\ FieldOf(p, i).t = "absent"
    /\ \A j \in 1..(i - 1) : FieldOf(p, j).t # "absent"
ParseableAt(p, j) ==
    CASE j = 1 -> TemperatureParseable(p)
      [] j = 2 -> WindSpeedParseable(p)
      [] OTHER -> TRUE

PointsLacksForecastUrl ==
    Read200(points_response) /\ points_response.body.forecast.t = "absent"

\* C5 as stated: a first period that lacks a required key (or a points
\* response that lacks the forecast URL) makes the fetch fail with the
\* missing-field report and return None.
C5_MissingKeyIsMalformedResponse ==
    (Done /\ ( \/ PointsLacksForecastUrl
               \/ ForecastGavePeriod /\ LacksKey(forecast_response.body.period) ))
        => (err.kind = "missing_field" /\ result = <<>>)

\* C5 as amended: such a fetch returns None, never a partial observation;
\* its report is the missing-field report naming the first missing key
\* when every required field read before that key is parseable (and names
\* 'forecast' for the points response); a field that is present but
\* unparseable and read before the missing key gives the generic report.
C5_MissingKeyFailsFetch ==
    /\ (Done /\ PointsLacksForecastUrl)
          => (result = <<>> /\ err.kind = "missing_field" /\ err.detail = "forecast")
    /\ (Done /\ ForecastGavePeriod /\ LacksKey(forecast_response.body.period))
          => LET p == forecast_response.body.period
                 i == FirstMissing(p)
             IN  /\ result = <<>>
                 /\ Len(sent) = 2
                 /\ IF \A j \in 1..(i - 1) : ParseableAt(p, j)
                    THEN err.kind = "missing_field" /\ err.detail = RequiredKeys[i]
                    ELSE err.kind = "generic"

\* the period lacks isDaytime only, and the fetch has ended
C5_Witness ==
    /\ Done
    /\ ForecastGavePeriod
    /\ LET p == forecast_response.body.period
       IN  /\ TemperatureParseable(p) /\ WindSpeedParseable(p)
           /\ p.windDirection.t # "absent"
           /\ p.isDaytime.t = "absent"
    /\ err.detail = "isDaytime"

\* c, with the whitespace around it dropped, is key up to the case of its
\* letters
SameLetter(a, b) == a = b \/ (IsLetter(a) /\ IsLetter(b) /\ LowerChar(a) = LowerChar(b))
Spells(c, key) ==
    \E i \in 1..(Len(c) + 1) :
        LET j == i + Len(key) - 1 IN
        /\ j <= Len(c)
        /\ \A k \in 1..(i - 1) : c[k] \in Whitespace
        /\ \A k \in (j + 1)..Len(c) : c[k] \in Whitespace
        /\ \A k \in 1..Len(key) : SameLetter(c[i + k - 1], key[k])

\* the supported names, title-cased, in alphabetical order
SupportedNames == <<
    <<"A","n","n"," ","A","r","b","o","r">>,
    <<"B","a","t","t","l","e"," ","C","r","e","e","k">>,
    <<"D","e","a","r","b","o","r","n">>,
    <<"D","e","t","r","o","i","t">>,
    <<"F","l","i","n","t">>,
    <<"G","r","a","n","d"," ","R","a","p","i","d","s">>,
    <<"J","a","c","k","s","o","n">>,
    <<"K","a","l","a","m","a","z","o","o">>,
    <<"L","a","n","s","i","n","g">>,
    <<"L","i","v","o","n","i","a">>,
    <<"M","u","s","k","e","g","o","n">>,
    <<"S","a","g","i","n","a","w">>,
    <<"S","t","e","r","l","i","n","g"," ","H","e","i","g","h","t","s">>,
    <<"T","r","o","y">>,
    <<"W","a","r","r","e","n">> >>

\* C6: the city resolves iff, trimmed and lower-cased, it is one of the 15
\* keys; then the points request carries that key's latitude and longitude;
\* otherwise the fetch reports CityNotFound with the sorted, title-cased
\* names, issues no request and returns None.
C6_ExactKeyResolution ==
    pc # "start" =>
        /\ Len(michigan_cities) = 15
        /\ \A i \in 1..Len(michigan_cities) :
              Spells(city, michigan_cities[i].key) =>
                  /\ err.kind # "city_not_found"
                  /\ written = <<>>
                  /\ coord = <<michigan_cities[i].lat, michigan_cities[i].lon>>
                  /\ Len(sent) >= 1 =>
                        /\ sent[1].kind = "points"
                        /\ sent[1].lat = michigan_cities[i].lat
                        /\ sent[1].lon = michigan_cities[i].lon
                  /\ pc = "points" \/ Len(sent) >= 1
        /\ (\A i \in 1..Len(michigan_cities) : ~Spells(city, michigan_cities[i].key)) =>
              /\ pc = "done"
              /\ err = CityNotFound
              /\ written = Join(SupportedNames)
              /\ sent = <<>>
              /\ result = <<>>

\* " TROY " resolved and the points request was issued
C6_Witness ==
    /\ city = Pad(1) \o Upper(Troy) \o Pad(1)
    /\ Len(sent) = 1
    /\ sent[1].lat = 425801

\* C7: the wind direction of every returned observation is one of the 8
\* compass points.
C7_WindDirectionIsCompassPoint ==
    Returned => result[1].Wind_Direction \in { Str1(d) : d \in Compass }

\* the NWS wind-chill formula 35.74 + 0.6215 T - 35.75 V^0.16 + 0.4275 T V^0.16
NWSWindChill(T, V) ==
    R(357400000 + 6215000 * T + (4275 * T - 357500) * Pow016[V], 10000000)

\* C8: the wind chill of a returned observation is the temperature itself
\* unless temperature <= 50 and wind speed > 3, and then it is the NWS
\* formula's value; T = 50 with V = 4 uses the formula, T = 51 or V = 3
\* does not.
C8_WindChillBranch ==
    Returned =>
        LET obs == result[1]
            T == obs.Temperature_F.num
            V == obs.Wind_Speed_mph.num
        IN  /\ obs.Temperature_F.den = 1 /\ obs.Wind_Speed_mph.den = 1
            /\ (T <= 50 /\ V > 3) => obs.Wind_Chill_F = NWSWindChill(T, V)
            /\ ~(T <= 50 /\ V > 3) => obs.Wind_Chill_F = obs.Temperature_F
            /\ (T = 50 /\ V = 4) => obs.Wind_Chill_F # obs.Temperature_F
            /\ (T = 51 \/ V = 3) => obs.Wind_Chill_F = obs.Temperature_F

\* an observation at the boundary T = 50, V = 4
C8_Witness ==
    /\ Returned
    /\ result[1].Temperature_F = R(50, 1)
    /\ result[1].Wind_Speed_mph = R(4, 1)
    /\ result[1].Wind_Chill_F # R(50, 1)

ObservationFields ==
    {"City", "Temperature_F", "Wind_Chill_F", "Humidity_pct", "Pressure_in",
     "Visibility_mi", "Wind_Direction", "Wind_Speed_mph", "Precipitation_in",
     "Sunrise_Sunset"}
IsNumber(x) == DOMAIN x = {"num", "den"} /\ x.den > 0
Complete(obs) ==
    /\ DOMAIN obs = ObservationFields
    /\ obs.City = city
    /\ \A f \in {"Temperature_F", "Wind_Chill_F", "Humidity_pct", "Pressure_in",
                 "Visibility_mi", "Wind_Speed_mph", "Precipitation_in"} :
          IsNumber(obs[f])
    /\ obs.Wind_Direction.t # "absent"
    /\ obs.Sunrise_Sunset \in {"Day", "Night"}

ErrorClasses ==
    {"city_not_found", "location", "forecast", "timeout", "connection",
     "missing_field", "generic"}

\* the response that ended a failed fetch
LastResponse == IF Len(sent) = 1 THEN points_response ELSE forecast_response

\* C9: every fetch ends, and ends either with a complete observation and no
\* error report, or with None and the report of the class of what went
\* wrong.
C9_OneOfTwoOutcomes ==
    /\ ~Done => (ENABLED Next /\ result = <<>> /\ err = NoError)
    /\ Done =>
          \/ /\ result # <<>>
             /\ Len(result) = 1
             /\ Complete(result[1])
             /\ err = NoError
          \/ /\ result = <<>>
             /\ err.kind \in ErrorClasses
             /\ err.kind = "city_not_found" <=> sent = <<>>
             /\ Len(sent) \in {1, 2} =>
                   /\ LastResponse.exc = "Timeout" <=> err.kind = "timeout"
                   /\ LastResponse.exc = "ConnectionError" <=> err.kind = "connection"
                   /\ (LastResponse.exc = "none" /\ LastResponse.status_code # 200)
                         <=> err.kind = (IF Len(sent) = 1 THEN "location" ELSE "forecast")
                   /\ err.kind \in {"location", "forecast"}
                         => err.status = LastResponse.status_code
                   /\ err.kind = "missing_field"
                         => (Read200(LastResponse) \/
                             (LastResponse.json_ok /\ ~LastResponse.body.has_properties))
             /\ Len(sent) < 3

\* a fetch that failed on the status of the forecast request
C9_Witness ==
    /\ Done
    /\ result = <<>>
    /\ err = ForecastError(500)

\* C10: the requests of a fetch are issued at most once each and in the
\* order points, forecast, grid-data; the forecast request only after the
\* points request returned 200 with a forecast URL; the grid-data request
\* only after the forecast request returned 200 with the four required
\* fields; none after a failure of step 1 or 2.
C10_RequestOrder ==
    /\ Len(sent) <= 3
    /\ \A i \in 1..Len(sent) : sent[i].kind = <<"points", "forecast", "grid">>[i]
    /\ Len(sent) >= 2 =>
          /\ PointsGaveForecastUrl
          /\ sent[2].path = points_response.body.forecast.path
    /\ Len(sent) >= 3 =>
          /\ ForecastGavePeriod
          /\ FourFieldsParseable(forecast_response.body.period)
    /\ (points_response.exc # "unsent" /\ ~PointsGaveForecastUrl) => Len(sent) = 1
    /\ ( forecast_response.exc # "unsent" /\
         ~(ForecastGavePeriod /\ FourFieldsParseable(forecast_response.body.period)) )
          => Len(sent) = 2
    /\ (err # NoError /\ sent # <<>>) => Len(sent) < 3

\* the three requests were issued
C10_Witness ==
    /\ Done
    /\ Len(sent) = 3
    /\ sent[3].path = <<"gridpoints", "DTX", "65,33">>

=============================================================================
